---- MODULE Spec2Model ----
(***************************************************************************)
(* Agenda operativa: the obligation matcher (core/motor_cruce.py), the     *)
(* window filters and KPI aggregate (core/control_semanal.py) and the risk *)
(* scoring engine (core/ri.py).                                            *)
(*                                                                         *)
(* A table cell is a tagged value: NaN (also an absent column, for which   *)
(* Series.get returns None and pd.isna is True), an integer, or a string,  *)
(* a sequence of one-character strings, so that strip, upper, split and    *)
(* the last character are computed and not assumed.                        *)
(***************************************************************************)
EXTENDS Integers, Sequences, FiniteSets, TLC

VARIABLES
    clientes,       \* the client table handed to generar_agenda_general
    vencimientos,   \* the deadline-rule table handed to it
    hoy,            \* the reference date handed to it, [y, m, d]
    pc,             \* position of the run
    resultado,      \* "none" | "ok" (returned) | "error" (an exception left the call)
    agenda,         \* the returned table, a sequence of entries
    vto_cli,        \* ri_pro_cliente's vencimientos_cliente
    deudas_cli,     \* ri_pro_cliente's deudas_cliente
    com_cli,        \* ri_pro_cliente's comunicaciones_cliente
    reloj,          \* the system date, pd.Timestamp.today().normalize(), as an ordinal
    ri,             \* the latest assessment returned, with the date it was computed on
    ri_ant,         \* the assessment returned before it
    salida          \* the latest call of a window filter or of kpis, with its arguments

varsAgenda == <<clientes, vencimientos, hoy, pc, resultado, agenda>>
varsRI == <<vto_cli, deudas_cli, com_cli, reloj, ri, ri_ant>>
varsControl == <<salida>>
vars == <<clientes, vencimientos, hoy, pc, resultado, agenda,
          vto_cli, deudas_cli, com_cli, reloj, ri, ri_ant, salida>>

----------------------------------------------------------------------------
(* Cells and strings *)

NaN == [t |-> "nan"]
I(n) == [t |-> "int", v |-> n]
S(s) == [t |-> "str", v |-> s]

isna(x) == x.t = "nan"

\* The characters of the model in code-point order.
Alphabet ==
    << " ", "(", ")", "+", "-", "0", "1", "2", "3", "4", "5", "6", "7", "8", "9",
       "A", "B", "C", "D", "E", "F", "G", "H", "I", "J", "K", "L", "M", "N", "O",
       "P", "Q", "R", "S", "T", "U", "V", "W", "X", "Y", "Z",
       "a", "b", "c", "d", "e", "f", "g", "h", "i", "j", "k", "l", "m", "n", "o",
       "p", "q", "r", "s", "t", "u", "v", "w", "x", "y", "z" >>

Chars == { Alphabet[i] : i \in 1..Len(Alphabet) }

CharCode == [c \in Chars |-> CHOOSE i \in 1..Len(Alphabet) : Alphabet[i] = c]

Digits == <<"0", "1", "2", "3", "4", "5", "6", "7", "8", "9">>

IsDigit(c) == \E i \in 1..10 : Digits[i] = c

DigitVal(c) == (CHOOSE i \in 1..10 : Digits[i] = c) - 1

IsLower(c) == CharCode[c] >= CharCode["a"] /\ CharCode[c] <= CharCode["z"]

UpperChar(c) == IF IsLower(c) THEN Alphabet[CharCode[c] - CharCode["a"] + CharCode["A"]] ELSE c

\* str.upper()
Upper(s) == [i \in 1..Len(s) |-> UpperChar(s[i])]

RECURSIVE LStrip(_)
LStrip(s) == IF s # <<>> /\ Head(s) = " " THEN LStrip(Tail(s)) ELSE s

RECURSIVE RStrip(_)
RStrip(s) == IF s # <<>> /\ s[Len(s)] = " " THEN RStrip(SubSeq(s, 1, Len(s) - 1)) ELSE s

\* str.strip()
Strip(s) == RStrip(LStrip(s))

\* str.isdigit(): non-empty and all digits
IsDigitStr(s) == s # <<>> /\ \A i \in 1..Len(s) : IsDigit(s[i])

RECURSIVE DigitsToNat(_)
DigitsToNat(s) ==
    IF s = <<>> THEN 0
    ELSE 10 * DigitsToNat(SubSeq(s, 1, Len(s) - 1)) + DigitVal(s[Len(s)])

RECURSIVE NatToDigits(_)
NatToDigits(n) ==
    IF n < 10 THEN <<Digits[n + 1]>>
    ELSE NatToDigits(n \div 10) \o <<Digits[(n % 10) + 1]>>

\* str(int)
IntToStr(n) == IF n < 0 THEN <<"-">> \o NatToDigits(0 - n) ELSE NatToDigits(n)

\* str(x) of a cell
Str(x) ==
    CASE x.t = "str" -> x.v
      [] x.t = "int" -> IntToStr(x.v)
      [] OTHER -> <<"n", "a", "n">>

\* lexicographic order of str
RECURSIVE StrLess(_, _)
StrLess(a, b) ==
    IF b = <<>> THEN FALSE
    ELSE IF a = <<>> THEN TRUE
    ELSE IF Head(a) = Head(b) THEN StrLess(Tail(a), Tail(b))
    ELSE CharCode[Head(a)] < CharCode[Head(b)]

\* int(x): [ok |-> FALSE] stands for ValueError / TypeError
IntOfStr(s) ==
    LET u == Strip(s)
        sign == u # <<>> /\ Head(u) \in {"+", "-"}
        body == IF sign THEN Tail(u) ELSE u
    IN IF IsDigitStr(body)
       THEN [ok |-> TRUE, v |-> IF sign /\ Head(u) = "-" THEN 0 - DigitsToNat(body) ELSE DigitsToNat(body)]
       ELSE [ok |-> FALSE]

Int_(x) ==
    CASE x.t = "int" -> [ok |-> TRUE, v |-> x.v]
      [] x.t = "str" -> IntOfStr(x.v)
      [] OTHER -> [ok |-> FALSE]

----------------------------------------------------------------------------
(* Calendar: datetime.date and the difference of two Timestamps in days *)

Bisiesto(y) == (y % 4 = 0 /\ y % 100 # 0) \/ y % 400 = 0

DiasMes(y, m) ==
    CASE m = 2 -> IF Bisiesto(y) THEN 29 ELSE 28
      [] m \in {4, 6, 9, 11} -> 30
      [] OTHER -> 31

FechaValida(y, m, d) == m \in 1..12 /\ d >= 1 /\ d <= DiasMes(y, m)

RECURSIVE DiasAntesDeMes(_, _)
DiasAntesDeMes(y, m) == IF m <= 1 THEN 0 ELSE DiasAntesDeMes(y, m - 1) + DiasMes(y, m - 1)

\* date.toordinal()
Ordinal(f) ==
    LET y1 == f.y - 1
    IN y1 * 365 + (y1 \div 4) - (y1 \div 100) + (y1 \div 400) + DiasAntesDeMes(f.y, f.m) + f.d

Fecha(y, m, d) == [y |-> y, m |-> m, d |-> d]

----------------------------------------------------------------------------
(* core/motor_cruce.py *)

safe_str(x) == IF isna(x) THEN <<>> ELSE Strip(Str(x))

\* str.split("-")
RECURSIVE Split(_, _)
Split(s, acc) ==
    IF s = <<>> THEN <<acc>>
    ELSE IF Head(s) = "-" THEN <<acc>> \o Split(Tail(s), <<>>)
    ELSE Split(Tail(s), Append(acc, Head(s)))

parse_terminacion(terminacion) ==
    IF isna(terminacion) THEN <<>>
    ELSE LET parts == Split(Str(terminacion), <<>>)
             keep == SelectSeq(parts, IsDigitStr)
         IN [i \in 1..Len(keep) |-> DigitsToNat(keep[i])]

ultimo_digito_cuit(cuit) ==
    LET s == Strip(Str(cuit))
    IN IF s = <<>> THEN [ok |-> FALSE]
       ELSE IF IsDigit(s[Len(s)]) THEN [ok |-> TRUE, v |-> DigitVal(s[Len(s)])]
       ELSE [ok |-> FALSE]

\* an indicator that is already red on the due date
SemaforoRojoElDia(dias) ==
    IF dias <= 0 THEN "rojo"
    ELSE IF dias <= 7 THEN "naranja"
    ELSE "verde"

semaforo_por_dias(dias) ==
    IF dias < 0 THEN "rojo"
    ELSE IF dias <= 7 THEN "naranja"
    ELSE "verde"

es_monotributista(cli) ==
    LET tipo == Upper(safe_str(cli.tipo_contibuyente))
        flag == Upper(safe_str(cli.monotributo))
    IN tipo = <<"M", "O", "N", "O">> \/ flag = <<"S", "I">>

SI == <<"S", "I">>
IVA == <<"I", "V", "A">>
IIBB == <<"I", "I", "B", "B">>
TS == <<"T", "S">>
ARCA == <<"A", "R", "C", "A">>
DGR == <<"D", "G", "R">>
ATP == <<"A", "T", "P", "(", "C", "H", "A", "C", "O", ")">>
ACOR == <<"A", "C", "O", "R">>

responsabilidades_cliente(cli) ==
    (IF Upper(safe_str(cli.iva)) = SI THEN {<<IVA, ARCA>>} ELSE {})
    \cup (IF Upper(safe_str(cli.iibb_corr)) = SI THEN {<<IIBB, DGR>>} ELSE {})
    \cup (IF Upper(safe_str(cli.iibb_chaco)) = SI THEN {<<IIBB, ATP>>} ELSE {})
    \cup (IF Upper(safe_str(cli.ts_corr)) = SI THEN {<<TS, ACOR>>} ELSE {})

\* f"{mes:02d}"
Pad2(n) == IF n >= 0 /\ n < 10 THEN <<"0">> \o IntToStr(n) ELSE IntToStr(n)

\* f"{anio}-{mes:02d}"
FormatoPeriodo(anio, mes) == IntToStr(anio) \o <<"-">> \o Pad2(mes)

\* The client-level guards of the outer loop (lines 102-118).
ClienteOmitido(cli) ==
    \/ isna(cli.cuit) \/ isna(cli.razon_social)
    \/ es_monotributista(cli)
    \/ ~ultimo_digito_cuit(cli.cuit).ok
    \/ responsabilidades_cliente(cli) = {}

\* a matcher that forgets the cohort filter
ReglaAplicaSinTerminacion(cli, vto) ==
    <<Upper(safe_str(vto.impuesto)), Upper(safe_str(vto.organismo))>>
        \in responsabilidades_cliente(cli)

\* The rule-level filters of the inner loop (lines 121-131).
ReglaAplica(cli, vto) ==
    /\ <<Upper(safe_str(vto.impuesto)), Upper(safe_str(vto.organismo))>>
           \in responsabilidades_cliente(cli)
    /\ \E i \in DOMAIN parse_terminacion(vto.terminacion) :
           parse_terminacion(vto.terminacion)[i] = ultimo_digito_cuit(cli.cuit).v

\* The estimated period's year (lines 139-142).
\* a period that is of the prior year already in the reference month
AnioPeriodoMesEnCurso(mes, h) == IF mes < h.m THEN h.y ELSE h.y - 1

AnioPeriodo(mes, h) == IF mes <= h.m THEN h.y ELSE h.y - 1

\* a due date that follows the year of the period
AnioVtoDelPeriodo(mes, h) == AnioPeriodo(mes, h)

\* The year the due date is built in (line 145).
AnioVto(mes, h) == h.y

\* One pass of the inner loop body for a client that is not skipped:
\* "skip" (continue), "raise" (int() or date() raised), or "reg" (a record appended).
Fila(cli, vto, h) ==
    IF ~ReglaAplica(cli, vto) THEN [k |-> "skip"]
    ELSE LET mes == Int_(vto.mes)
             dia == Int_(vto.dia)
         IN IF ~mes.ok \/ ~dia.ok THEN [k |-> "raise"]
            ELSE IF ~FechaValida(AnioVto(mes.v, h), mes.v, dia.v) THEN [k |-> "raise"]
            ELSE LET fecha_vto == Fecha(AnioVto(mes.v, h), mes.v, dia.v)
                     dias_restantes == Ordinal(fecha_vto) - Ordinal(h)
                 IN [k |-> "reg",
                     r |-> [cuit |-> Str(cli.cuit),
                            cliente |-> safe_str(cli.razon_social),
                            impuesto |-> Upper(safe_str(vto.impuesto)),
                            organismo |-> Upper(safe_str(vto.organismo)),
                            periodo_estimado |-> FormatoPeriodo(AnioPeriodo(mes.v, h), mes.v),
                            fecha_vto |-> fecha_vto,
                            dias_restantes |-> dias_restantes,
                            semaforo |-> semaforo_por_dias(dias_restantes)]]

\* The passes of both loops in execution order.
RECURSIVE FilasCliente(_, _, _)
FilasCliente(cli, vtos, h) ==
    IF vtos = <<>> THEN <<>>
    ELSE <<Fila(cli, Head(vtos), h)>> \o FilasCliente(cli, Tail(vtos), h)

RECURSIVE Filas(_, _, _)
Filas(clis, vtos, h) ==
    IF clis = <<>> THEN <<>>
    ELSE (IF ClienteOmitido(Head(clis)) THEN <<>> ELSE FilasCliente(Head(clis), vtos, h))
         \o Filas(Tail(clis), vtos, h)

Llave(r) == <<r.cuit, r.impuesto, r.organismo, r.periodo_estimado>>

\* a matcher that returns the records without deduplicating them
SinDropDuplicates(regs, vistas) == regs

\* DataFrame.drop_duplicates(subset=...): keeps the first row of every key
RECURSIVE drop_duplicates(_, _)
drop_duplicates(regs, vistas) ==
    IF regs = <<>> THEN <<>>
    ELSE IF Llave(Head(regs)) \in vistas THEN drop_duplicates(Tail(regs), vistas)
    ELSE <<Head(regs)>> \o drop_duplicates(Tail(regs), vistas \cup {Llave(Head(regs))})

\* The order of sort_values(["fecha_vto", "cliente", "impuesto"])
AntesQue(a, b) ==
    \/ Ordinal(a.fecha_vto) < Ordinal(b.fecha_vto)
    \/ /\ a.fecha_vto = b.fecha_vto
       /\ \/ StrLess(a.cliente, b.cliente)
          \/ a.cliente = b.cliente /\ StrLess(a.impuesto, b.impuesto)

\* stable insertion: after every row that is not strictly after r
RECURSIVE Insertar(_, _)
Insertar(r, ord) ==
    IF ord = <<>> THEN <<r>>
    ELSE IF AntesQue(r, Head(ord)) THEN <<r>> \o ord
    ELSE <<Head(ord)>> \o Insertar(r, Tail(ord))

RECURSIVE sort_values(_)
sort_values(regs) ==
    IF regs = <<>> THEN <<>>
    ELSE Insertar(regs[Len(regs)], sort_values(SubSeq(regs, 1, Len(regs) - 1)))

generar_agenda_general(clis, vtos, h) ==
    LET filas == Filas(clis, vtos, h)
        regs == SelectSeq(filas, LAMBDA f : f.k = "reg")
        registros == [i \in 1..Len(regs) |-> regs[i].r]
    IN IF \E i \in 1..Len(filas) : filas[i].k = "raise"
       THEN [estado |-> "error", agenda |-> <<>>]
       ELSE [estado |-> "ok", agenda |-> sort_values(drop_duplicates(registros, {}))]

----------------------------------------------------------------------------
(* core/control_semanal.py: the window filters and the KPI aggregate. A table is *)
(* the sequence of its rows; R is the reference date, [y, m, d].                 *)

\* app.py lines 97-100: drop_duplicates on (cuit, impuesto, organismo,
\* periodo_estimado, fecha_vto) of the agenda handed to the views
LlaveApp(r) == <<r.cuit, r.impuesto, r.organismo, r.periodo_estimado, r.fecha_vto>>

RECURSIVE DropDuplicatesApp(_, _)
DropDuplicatesApp(regs, vistas) ==
    IF regs = <<>> THEN <<>>
    ELSE IF LlaveApp(Head(regs)) \in vistas THEN DropDuplicatesApp(Tail(regs), vistas)
    ELSE <<Head(regs)>> \o DropDuplicatesApp(Tail(regs), vistas \cup {LlaveApp(Head(regs))})

agenda_general(df) == IF df = <<>> THEN df ELSE DropDuplicatesApp(df, {})

\* "c" in df.columns, for a table with at least one row
TieneColumna(df, c) == c \in DOMAIN df[1]

\* The order of sort_values(["dias_restantes", "cliente", "impuesto"])
AntesQueDias(a, b) ==
    \/ a.dias_restantes < b.dias_restantes
    \/ /\ a.dias_restantes = b.dias_restantes
       /\ \/ StrLess(a.cliente, b.cliente)
          \/ a.cliente = b.cliente /\ StrLess(a.impuesto, b.impuesto)

RECURSIVE InsertarPorDias(_, _)
InsertarPorDias(r, ord) ==
    IF ord = <<>> THEN <<r>>
    ELSE IF AntesQueDias(r, Head(ord)) THEN <<r>> \o ord
    ELSE <<Head(ord)>> \o InsertarPorDias(r, Tail(ord))

RECURSIVE sort_values_dias(_)
sort_values_dias(regs) ==
    IF regs = <<>> THEN <<>>
    ELSE InsertarPorDias(regs[Len(regs)], sort_values_dias(SubSeq(regs, 1, Len(regs) - 1)))

\* lines 11-14 and 33-36: by days-remaining when the column is there, else by due date
OrdenPrioridad(out) ==
    IF out = <<>> THEN out
    ELSE IF TieneColumna(out, "dias_restantes") THEN sort_values_dias(out)
    ELSE sort_values(out)

\* a window that leaves its last day out
EnVentanaSinUltimoDia(f, R, dias) == Ordinal(f) >= Ordinal(R) /\ Ordinal(f) < Ordinal(R) + dias

\* fecha_vto >= hoy and fecha_vto <= hoy + Timedelta(days=dias)
EnVentana(f, R, dias) == Ordinal(f) >= Ordinal(R) /\ Ordinal(f) <= Ordinal(R) + dias

generar_control_semanal(df, R, dias) ==
    IF df = <<>> THEN <<>>
    ELSE OrdenPrioridad(SelectSeq(df, LAMBDA r : EnVentana(r.fecha_vto, R, dias)))

generar_proximos(df, R, dias) ==
    IF df = <<>> THEN <<>>
    ELSE sort_values(SelectSeq(df, LAMBDA r : EnVentana(r.fecha_vto, R, dias)))

generar_vencidos(df, R) ==
    IF df = <<>> THEN <<>>
    ELSE OrdenPrioridad(SelectSeq(df, LAMBDA r : Ordinal(r.fecha_vto) < Ordinal(R)))

\* (df.get("estado_agenda") == valor).sum() if "estado_agenda" in df.columns else 0
CuentaEstadoAgenda(df, valor) ==
    IF TieneColumna(df, "estado_agenda")
    THEN Cardinality({i \in 1..Len(df) : df[i]["estado_agenda"] = valor})
    ELSE 0

kpis(df) ==
    IF df = <<>> THEN [obligaciones |-> 0, vencidas |-> 0, ok |-> 0, clientes |-> 0]
    ELSE [obligaciones |-> Len(df),
          vencidas |-> CuentaEstadoAgenda(df, "VENCIDO"),
          ok |-> CuentaEstadoAgenda(df, "OK"),
          clientes |-> IF TieneColumna(df, "cliente")
                       THEN Cardinality({df[i].cliente : i \in 1..Len(df)})
                       ELSE 0]

----------------------------------------------------------------------------
(* core/ri.py                                                              *)
(* A DataFrame is [cols, rows]: the set of column names and the rows, each *)
(* a function from cols to cells.  None and an empty frame are told apart  *)
(* nowhere in ri.py, so None is the frame with no columns and no rows.     *)
(* A Timestamp cell is [t |-> "ts", d, tod]: the day (an ordinal) and 1    *)
(* when it carries a time of day after midnight, 0 otherwise.              *)

T(d, tod) == [t |-> "ts", d |-> d, tod |-> tod]

DFNone == [cols |-> {}, rows |-> <<>>]

\* "df is None or df.empty"
Vacio(df) == df.cols = {} \/ df.rows = <<>>

\* "YYYY-MM-DD" -> Timestamp, anything else NaT (errors="coerce")
ParseFecha(s) ==
    IF /\ Len(s) = 10
       /\ s[5] = "-" /\ s[8] = "-"
       /\ IsDigitStr(SubSeq(s, 1, 4)) /\ IsDigitStr(SubSeq(s, 6, 7)) /\ IsDigitStr(SubSeq(s, 9, 10))
       /\ FechaValida(DigitsToNat(SubSeq(s, 1, 4)), DigitsToNat(SubSeq(s, 6, 7)),
                      DigitsToNat(SubSeq(s, 9, 10)))
       /\ DigitsToNat(SubSeq(s, 1, 4)) >= 1
    THEN T(Ordinal(Fecha(DigitsToNat(SubSeq(s, 1, 4)), DigitsToNat(SubSeq(s, 6, 7)),
                         DigitsToNat(SubSeq(s, 9, 10)))), 0)
    ELSE NaN

\* pd.to_datetime(x, errors="coerce") of one cell: a Timestamp or NaT
\* (numeric cells are not part of the modelled inputs of date columns)
to_dt(x) ==
    CASE x.t = "ts" -> x
      [] x.t = "str" -> ParseFecha(Strip(x.v))
      [] OTHER -> NaN

\* pd.to_numeric(x, errors="coerce") of one cell: an integer cell or NaN
to_numeric(x) ==
    CASE x.t = "int" -> x
      [] x.t = "str" -> IF IntOfStr(x.v).ok THEN I(IntOfStr(x.v).v) ELSE NaN
      [] OTHER -> NaN

\* (hoy - ts).days: Timedelta.days is the floor of the difference in days
DiasEntre(dia, ts) == dia - ts.d - ts.tod

\* (ts - hoy).days
DiasHasta(ts, dia) == ts.d - dia

\* int(x / 30): float division, then truncation toward zero
Meses(delta) == IF delta >= 0 THEN delta \div 30 ELSE 0 - ((0 - delta) \div 30)

RECURSIVE SeqMax(_)
SeqMax(s) ==
    IF Len(s) = 1 THEN s[1]
    ELSE LET m == SeqMax(Tail(s)) IN IF s[1] >= m THEN s[1] ELSE m

RECURSIVE SeqSum(_)
SeqSum(s) == IF s = <<>> THEN 0 ELSE Head(s) + SeqSum(Tail(s))

RECURSIVE PickFrom(_, _)
PickFrom(cols, candidates) ==
    IF candidates = <<>> THEN [ok |-> FALSE]
    ELSE IF Head(candidates) \in cols THEN [ok |-> TRUE, c |-> Head(candidates)]
    ELSE PickFrom(cols, Tail(candidates))

pick_col(df, candidates) == IF Vacio(df) THEN [ok |-> FALSE] ELSE PickFrom(df.cols, candidates)

deuda_total(df) ==
    IF Vacio(df) THEN 0
    ELSE LET col == pick_col(df, <<"total_deuda", "monto", "importe", "saldo">>)
         IN IF ~col.ok THEN 0
            ELSE SeqSum([i \in 1..Len(df.rows) |->
                           LET n == to_numeric(df.rows[i][col.c])
                           IN IF isna(n) THEN 0 ELSE n.v])

\* the 'YYYY-MM' / 'YYYYMM' / 'YYYY/MM' normalisation of lines 76-82, then "+ -01"
RECURSIVE SinEspaciosBarra(_)
SinEspaciosBarra(s) ==
    IF s = <<>> THEN <<>>
    ELSE IF Head(s) = " " THEN SinEspaciosBarra(Tail(s))
    ELSE <<IF Head(s) = "/" THEN "-" ELSE Head(s)>> \o SinEspaciosBarra(Tail(s))

PeriodoAFecha(x) ==
    LET p0 == SinEspaciosBarra(Strip(Str(x)))
        p == IF Len(p0) = 6 /\ IsDigitStr(p0)
             THEN SubSeq(p0, 1, 4) \o <<"-">> \o SubSeq(p0, 5, 6)
             ELSE p0
    IN ParseFecha(p \o <<"-", "0", "1">>)

\* int(meses.max()) over a column of Timestamps / NaT, NaT counting as 0 months
MesesMax(fechas, dia) ==
    Meses(SeqMax([i \in 1..Len(fechas) |->
                    IF isna(fechas[i]) THEN 0 ELSE DiasEntre(dia, fechas[i])]))

antiguedad_max_meses(df, dia) ==
    IF Vacio(df) THEN 0
    ELSE LET col_fecha == pick_col(df, <<"fecha_actualizacion", "fecha", "actualizado", "updated_at">>)
             fechas1 == IF col_fecha.ok
                        THEN [i \in 1..Len(df.rows) |-> to_dt(df.rows[i][col_fecha.c])]
                        ELSE <<>>
             col_periodo == pick_col(df, <<"periodo", "periodo_fiscal">>)
             fechas2 == IF col_periodo.ok
                        THEN [i \in 1..Len(df.rows) |-> PeriodoAFecha(df.rows[i][col_periodo.c])]
                        ELSE <<>>
         IN IF \E i \in 1..Len(fechas1) : ~isna(fechas1[i]) THEN MesesMax(fechas1, dia)
            ELSE IF \E i \in 1..Len(fechas2) : ~isna(fechas2[i]) THEN MesesMax(fechas2, dia)
            ELSE 0

\* buckets that always recompute days-remaining from the due date and today
DiasDeFilasDesdeFecha(df, dia) ==
    LET col_fecha == pick_col(df, <<"fecha_vto", "vto", "fecha">>)
    IN IF col_fecha.ok
       THEN [ok |-> TRUE,
             dias |-> [i \in 1..Len(df.rows) |->
                         LET f == to_dt(df.rows[i][col_fecha.c])
                         IN IF isna(f) THEN NaN ELSE I(DiasHasta(f, dia))]]
       ELSE [ok |-> FALSE]

\* The days-remaining column the buckets are cut on (lines 106-121): the first of
\* dias_restantes / dias / restantes, else computed from the date column and today.
DiasDeFilas(df, dia) ==
    LET col_fecha == pick_col(df, <<"fecha_vto", "vto", "fecha">>)
        col_dias == pick_col(df, <<"dias_restantes", "dias", "restantes">>)
    IN IF col_dias.ok
       THEN [ok |-> TRUE, dias |-> [i \in 1..Len(df.rows) |-> to_numeric(df.rows[i][col_dias.c])]]
       ELSE IF col_fecha.ok
       THEN [ok |-> TRUE,
             dias |-> [i \in 1..Len(df.rows) |->
                         LET f == to_dt(df.rows[i][col_fecha.c])
                         IN IF isna(f) THEN NaN ELSE I(DiasHasta(f, dia))]]
       ELSE [ok |-> FALSE]

\* sort_values("dias_restantes") of a bucket, NaN never being in a bucket
RECURSIVE InsertarDias(_, _)
InsertarDias(r, ord) ==
    IF ord = <<>> THEN <<r>>
    ELSE IF r.dias_restantes < Head(ord).dias_restantes THEN <<r>> \o ord
    ELSE <<Head(ord)>> \o InsertarDias(r, Tail(ord))

RECURSIVE OrdenarDias(_)
OrdenarDias(rs) ==
    IF rs = <<>> THEN <<>>
    ELSE InsertarDias(rs[Len(rs)], OrdenarDias(SubSeq(rs, 1, Len(rs) - 1)))

\* a critical bucket that ends before the seventh day
EsCriticoAntesDe7(d) == d < 7

EsCritico(d) == d <= 7
EsProximo(d) == d >= 8 /\ d <= 30
EsFuturo(d) == d > 30

EnBucket(nombre, d) ==
    CASE nombre = "criticos" -> EsCritico(d)
      [] nombre = "proximos" -> EsProximo(d)
      [] OTHER -> EsFuturo(d)

\* the rows of one bucket: fila is the row's position in the input frame
Bucket(dias, nombre) ==
    LET idx == SelectSeq([i \in 1..Len(dias) |-> i],
                         LAMBDA i : ~isna(dias[i]) /\ EnBucket(nombre, dias[i].v))
    IN OrdenarDias([j \in 1..Len(idx) |-> [fila |-> idx[j], dias_restantes |-> dias[idx[j]].v]])

vencimientos_buckets(df, dia) ==
    IF Vacio(df) THEN [criticos |-> <<>>, proximos |-> <<>>, futuros |-> <<>>]
    ELSE LET dd == DiasDeFilas(df, dia)
         IN IF ~dd.ok THEN [criticos |-> <<>>, proximos |-> <<>>, futuros |-> <<>>]
            ELSE [criticos |-> Bucket(dd.dias, "criticos"),
                  proximos |-> Bucket(dd.dias, "proximos"),
                  futuros |-> Bucket(dd.dias, "futuros")]

Min(a, b) == IF a <= b THEN a ELSE b

\* a due-date score whose critical part is not capped
ScoreVtoSinTope(buckets) ==
    Len(buckets.criticos) * 15 + Min(10, Len(buckets.proximos) * 3)

score_vencimientos(buckets) ==
    Min(30, Len(buckets.criticos) * 15) + Min(10, Len(buckets.proximos) * 3)

\* a debt score that forgets the age of the debt
ScoreDeudaSinAntiguedad(total, antiguedad_meses) ==
    IF total <= 0 THEN 0
    ELSE IF total <= 100000 THEN 10
    ELSE IF total <= 500000 THEN 20
    ELSE 30

\* a debt score whose amount tiers exclude their upper ends
ScoreDeudaTramosAbiertos(total, antiguedad_meses) ==
    LET monto == IF total <= 0 THEN 0
                 ELSE IF total < 100000 THEN 10
                 ELSE IF total < 500000 THEN 20
                 ELSE 30
        antig == IF antiguedad_meses >= 6 THEN 10
                 ELSE IF antiguedad_meses >= 3 THEN 5
                 ELSE 0
    IN Min(40, monto + antig)

score_deuda(total, antiguedad_meses) ==
    LET monto == IF total <= 0 THEN 0
                 ELSE IF total <= 100000 THEN 10
                 ELSE IF total <= 500000 THEN 20
                 ELSE 30
        antig == IF antiguedad_meses >= 6 THEN 10
                 ELSE IF antiguedad_meses >= 3 THEN 5
                 ELSE 0
    IN Min(40, monto + antig)

PENDIENTE == <<"P", "E", "N", "D", "I", "E", "N", "T", "E">>
ENVIADO == <<"E", "N", "V", "I", "A", "D", "O">>
RESPONDIDO == <<"R", "E", "S", "P", "O", "N", "D", "I", "D", "O">>

\* the row df.sort_values(col_fecha, ascending=False).iloc[0]: a row of the latest
\* Timestamp (NaT sorts last), the first such row of the frame
UltimaFila(fechas) ==
    CHOOSE i \in 1..Len(fechas) :
        /\ ~isna(fechas[i])
        /\ \A j \in 1..Len(fechas) :
              ~isna(fechas[j]) =>
                 \/ fechas[j].d < fechas[i].d
                 \/ fechas[j].d = fechas[i].d /\ fechas[j].tod < fechas[i].tod
                 \/ fechas[j].d = fechas[i].d /\ fechas[j].tod = fechas[i].tod /\ i <= j

\* a count that only tells whether the value occurs
CuentaHayAlguno(est, valor) == IF \E i \in 1..Len(est) : est[i] = valor THEN 1 ELSE 0

Cuenta(est, valor) == Cardinality({i \in 1..Len(est) : est[i] = valor})

score_comunicacion(df, dia) ==
    IF Vacio(df)
    THEN [score |-> 0, estado |-> "SIN HISTORIAL", canal_recomendado |-> S(<<"W", "h", "a", "t", "s", "A", "p", "p">>),
          dias_sin_respuesta |-> NaN, accion_sugerida |-> "None"]
    ELSE LET col_fecha == pick_col(df, <<"fecha", "created_at", "timestamp">>)
             col_estado == pick_col(df, <<"estado", "status">>)
             col_canal == pick_col(df, <<"canal", "channel">>)
             fechas == IF col_fecha.ok
                       THEN [i \in 1..Len(df.rows) |-> to_dt(df.rows[i][col_fecha.c])]
                       ELSE <<>>
             hay == \E i \in 1..Len(fechas) : ~isna(fechas[i])
             dias == IF hay THEN I(DiasEntre(dia, fechas[UltimaFila(fechas)])) ELSE NaN
             canal == IF hay /\ col_canal.ok
                      THEN LET c == df.rows[UltimaFila(fechas)][col_canal.c]
                               s == IF isna(c) THEN <<>> ELSE Strip(Str(c))
                           IN IF s = <<>> THEN S(<<"W", "h", "a", "t", "s", "A", "p", "p">>) ELSE S(s)
                      ELSE NaN
             est == IF col_estado.ok
                    THEN [i \in 1..Len(df.rows) |-> Upper(Str(df.rows[i][col_estado.c]))]
                    ELSE <<>>
             n_pend == Cuenta(est, PENDIENTE)
             n_env == Cuenta(est, ENVIADO)
             n_resp == Cuenta(est, RESPONDIDO)
             s1 == IF col_estado.ok /\ n_pend > 0 THEN Min(15, n_pend * 8)
                   ELSE IF col_estado.ok /\ n_env > 0 /\ n_resp = 0 THEN 6
                   ELSE 0
             estado == IF col_estado.ok /\ n_pend > 0 THEN "PENDIENTE"
                       ELSE IF col_estado.ok /\ n_env > 0 /\ n_resp = 0 THEN "ENVIADO SIN RESPUESTA"
                       ELSE "OK"
             accion1 == IF col_estado.ok /\ n_pend > 0 THEN "Recontactar / solicitar respuesta"
                        ELSE IF col_estado.ok /\ n_env > 0 /\ n_resp = 0 THEN "Confirmar recepcion"
                        ELSE "None"
             s2 == IF isna(dias) THEN 0
                   ELSE IF dias.v >= 15 THEN 5
                   ELSE IF dias.v >= 7 THEN 3
                   ELSE 0
             accion == IF ~isna(dias) /\ dias.v >= 15 /\ accion1 = "None"
                       THEN "Recontactar (15+ dias)"
                       ELSE accion1
         IN [score |-> Min(20, s1 + s2), estado |-> estado, canal_recomendado |-> canal,
             dias_sin_respuesta |-> dias, accion_sugerida |-> accion]

\* a level whose thresholds are strict
NivelColorEstricto(score_total) ==
    IF score_total > 60 THEN <<"CRITICO", "rojo">>
    ELSE IF score_total > 35 THEN <<"ALTO", "rojo">>
    ELSE IF score_total > 20 THEN <<"MEDIO", "naranja">>
    ELSE <<"BAJO", "verde">>

\* a level that is high from 25 points on
NivelColorAltoDesde25(score_total) ==
    IF score_total >= 60 THEN <<"CRITICO", "rojo">>
    ELSE IF score_total >= 25 THEN <<"ALTO", "rojo">>
    ELSE IF score_total >= 20 THEN <<"MEDIO", "naranja">>
    ELSE <<"BAJO", "verde">>

nivel_color(score_total) ==
    IF score_total >= 60 THEN <<"CRITICO", "rojo">>
    ELSE IF score_total >= 35 THEN <<"ALTO", "rojo">>
    ELSE IF score_total >= 20 THEN <<"MEDIO", "naranja">>
    ELSE <<"BAJO", "verde">>

\* an action that looks at the critical filings before the debt
AccionVencimientosPrimero(nivel, total, ncrit, nprox) ==
    IF ncrit > 0 THEN "Priorizar presentaciones criticas"
    ELSE IF total > 0 THEN "Evaluar pago o plan de pagos"
    ELSE IF nprox > 0 THEN "Organizar presentaciones proximas"
    ELSE IF nivel \in {"CRITICO", "ALTO"} THEN "Revisar situacion fiscal integral"
    ELSE "Operacion normal"

accion_principal(nivel, total, ncrit, nprox) ==
    IF total > 0 THEN "Evaluar pago o plan de pagos"
    ELSE IF ncrit > 0 THEN "Priorizar presentaciones criticas"
    ELSE IF nprox > 0 THEN "Organizar presentaciones proximas"
    ELSE IF nivel \in {"CRITICO", "ALTO"} THEN "Revisar situacion fiscal integral"
    ELSE "Operacion normal"

\* the chips list (lines 338-346); a chip is <<text, status>>, f"Comunicacion: {estado}"
\* being the pair of its two parts
Chips(total, ncrit, nprox, estado_com) ==
    (IF total > 0 THEN << <<"Deuda exigible", "">> >> ELSE <<>>)
    \o (IF ncrit > 0 THEN << <<"Vencimientos criticos", "">> >>
        ELSE IF nprox > 0 THEN << <<"Vencimientos proximos", "">> >>
        ELSE <<>>)
    \o (IF estado_com \notin {"-", "OK"} THEN << <<"Comunicacion: ", estado_com>> >> ELSE <<>>)

\* dia is pd.Timestamp.today().normalize(), read inside the helpers
ri_pro_cliente(vencimientos_cliente, deudas_cliente, comunicaciones_cliente, dia) ==
    LET buckets == vencimientos_buckets(vencimientos_cliente, dia)
        ncrit == Len(buckets.criticos)
        nprox == Len(buckets.proximos)
        score_v == score_vencimientos(buckets)
        total == deuda_total(deudas_cliente)
        ant_meses == antiguedad_max_meses(deudas_cliente, dia)
        score_d == score_deuda(total, ant_meses)
        com == score_comunicacion(comunicaciones_cliente, dia)
        score_total == score_v + score_d + com.score
        nc == nivel_color(score_total)
    IN [resumen |-> [score |-> score_total,
                     nivel |-> nc[1],
                     color |-> nc[2],
                     accion_sugerida |-> accion_principal(nc[1], total, ncrit, nprox),
                     chips |-> Chips(total, ncrit, nprox, com.estado),
                     composicion |-> [vencimientos |-> score_v, deudas |-> score_d,
                                      comunicacion |-> com.score, total |-> score_total]],
        riesgo_vencimientos |-> buckets,
        riesgo_deuda |-> [total_deuda |-> total, antiguedad_max_meses |-> ant_meses],
        estado_comunicacion |-> com]

----------------------------------------------------------------------------
(* Inputs of the obligation matcher *)

MaxClientes == 2
MaxReglas == 2

\* the sequences over U of length at most n
RECURSIVE SeqsUpTo(_, _)
SeqsUpTo(U, n) ==
    IF n = 0 THEN {<<>>}
    ELSE LET prev == SeqsUpTo(U, n - 1)
         IN prev \cup {Append(q, u) : q \in {x \in prev : Len(x) = n - 1}, u \in U}

Cli(cuit, rs, tc1, tc2, mono, iva, ic, ich, ts) ==
    [cuit |-> cuit, razon_social |-> rs, tipo_contibuyente |-> tc1, tipo_contribuyente |-> tc2,
     monotributo |-> mono, iva |-> iva, iibb_corr |-> ic, iibb_chaco |-> ich, ts_corr |-> ts]

Regla(imp, org, mes, dia, term) ==
    [impuesto |-> imp, organismo |-> org, mes |-> mes, dia |-> dia, terminacion |-> term]

ACME == S(<<"A", "C", "M", "E">>)
BETA == S(<<"B", "e", "t", "a">>)
Cuit27 == S(<<"2", "7">>)
Cuit15 == S(<<"1", "5">>)
T567 == S(<<"5", "-", "6", "-", "7">>)
T012 == S(<<"0", "-", "1", "-", "2">>)
T7 == S(<<"7">>)

\* the tax identifier is unique in the client table (spec, glossary)
CuitsUnicos(clis) ==
    \A i, j \in 1..Len(clis) : i # j => Str(clis[i].cuit) # Str(clis[j].cuit)

\* several clients, few rules
ClientesVarios ==
    { Cli(c, n, NaN, NaN, NaN, f[1], f[2], NaN, NaN) :
        c \in {Cuit27, Cuit15, I(35)}, n \in {ACME, BETA},
        f \in {<<S(SI), NaN>>, <<S(<<"s", "i">>), S(SI)>>, <<NaN, NaN>>} }

ReglasPocas ==
    { <<Regla(S(IVA), S(ARCA), I(6), I(20), T567), Regla(S(IIBB), S(DGR), I(6), I(18), T567)>>,
      <<Regla(S(IVA), S(ARCA), I(6), I(20), T012), Regla(S(IIBB), S(DGR), I(6), I(18), T567)>>,
      <<Regla(S(IIBB), S(DGR), I(7), I(3), T567), Regla(S(IVA), S(ARCA), I(6), I(20), T567),
        Regla(S(IVA), S(ARCA), I(6), I(25), T7)>> }

\* one client, several rules
ClientesBase ==
    { Cli(Cuit27, ACME, NaN, NaN, NaN, S(SI), S(SI), NaN, NaN),
      Cli(Cuit15, BETA, NaN, NaN, S(<<"N", "O">>), S(SI), NaN, NaN, NaN) }

ReglasVarias ==
    { Regla(io[1], io[2], m, d, t) :
        io \in {<<S(<<" ", "i", "v", "a">>), S(<<"A", "r", "c", "a", " ">>)>>, <<S(IIBB), S(DGR)>>},
        m \in {I(6), I(12)}, d \in {I(10), I(20)}, t \in {T567, T012} }

\* one client with every combination of identifier, name, regime and flags
ClientesRicos ==
    { Cli(c, n, tc1, tc2, mono, iva, ic, ich, ts) :
        c \in {NaN, S(<<>>), Cuit27, S(<<"2", "7", " ">>), S(<<"2", "X">>), I(27)},
        n \in {NaN, ACME},
        tc1 \in {NaN, S(<<"M", "O", "N", "O">>), S(<<" ", "m", "o", "n", "o">>)},
        tc2 \in {NaN, S(<<"M", "O", "N", "O">>), S(<<" ", "m", "o", "n", "o">>)},
        mono \in {NaN, S(SI), S(<<"s", "i", " ">>), S(<<"N", "O">>)},
        iva \in {S(SI), NaN},
        ic \in {S(<<"S", "i">>), S(<<"N", "O">>)},
        ich \in {S(SI), NaN},
        ts \in {S(<<" ", "s", "i", " ">>), NaN} }

ReglasCuatro ==
    << Regla(S(IVA), S(ARCA), I(6), I(20), T567),
       Regla(S(IIBB), S(DGR), I(6), I(18), T7),
       Regla(S(IIBB), S(ATP), I(5), I(15), T567),
       Regla(S(TS), S(ACOR), I(12), I(10), T567) >>

\* one client, one rule of every shape, alone or next to a well-formed rule
ReglasRicas ==
    { Regla(S(IVA), o, m, d, t) :
        o \in {S(ARCA), S(DGR)},
        m \in {I(1), I(2), I(6), I(12), I(13), S(<<"6">>), S(<<"a", "b", "c">>), NaN},
        d \in {I(1), I(20), I(29), I(30), I(31), S(<<"x">>), NaN},
        t \in {T567, T7, S(<<"5", "-", " ", "7">>), S(<<"5", "7">>), NaN, I(7)} }

ReglaBuena == Regla(S(IIBB), S(DGR), I(6), I(18), T7)

Fechas ==
    { Fecha(2024, 6, 1), Fecha(2024, 3, 1), Fecha(2024, 1, 1), Fecha(2023, 2, 28),
      Fecha(2024, 12, 31) }

EntradasAgenda ==
    \/ /\ clientes \in {c \in SeqsUpTo(ClientesVarios, MaxClientes) : CuitsUnicos(c)}
       /\ vencimientos \in ReglasPocas
       /\ hoy = Fecha(2024, 6, 15)
    \/ /\ clientes \in {<<c>> : c \in ClientesBase}
       /\ vencimientos \in SeqsUpTo(ReglasVarias, MaxReglas)
       /\ hoy = Fecha(2024, 6, 15)
    \/ /\ clientes \in {<<c>> : c \in ClientesRicos}
       /\ vencimientos = ReglasCuatro
       /\ hoy = Fecha(2024, 6, 15)
    \/ /\ clientes = <<Cli(Cuit27, ACME, NaN, NaN, NaN, S(SI), S(SI), NaN, NaN)>>
       /\ vencimientos \in {<<r>> : r \in ReglasRicas}
                            \cup {<<ReglaBuena, r>> : r \in ReglasRicas}
                            \cup {<<r, ReglaBuena>> : r \in ReglasRicas}
       /\ hoy \in Fechas

----------------------------------------------------------------------------
(* Inputs of the risk scoring engine *)

MaxVtos == 6
MaxDeudas == 2
MaxComs == 2
MaxTicks == 1

\* the system date of the first state
RelojBase == Ordinal(Fecha(2024, 6, 15))

DiasVals == {0 - 3, 7, 8, 30, 31}

NoDecreciente(q) == \A i \in 1..(Len(q) - 1) : q[i] <= q[i + 1]

\* the client's rows of an agenda of the matcher (sorted by due date), computed at RelojBase
FilasVto(q) == [i \in 1..Len(q) |-> [dias_restantes |-> I(q[i]), fecha_vto |-> T(RelojBase + q[i], 0)]]

\* the same rows without the days-remaining column
FilasSoloFecha(q) == [i \in 1..Len(q) |-> [fecha_vto |-> T(RelojBase + q[i], 0)]]

AgendasRicas ==
    { [cols |-> {"dias_restantes", "fecha_vto"}, rows |-> FilasVto(q)] :
        q \in {x \in SeqsUpTo(DiasVals, MaxVtos) : NoDecreciente(x)} }
    \cup { [cols |-> {"fecha_vto"}, rows |-> FilasSoloFecha(q)] :
             q \in {<<7>>, <<8>>, <<7, 30>>, <<30, 31>>} }
    \cup { [cols |-> {"impuesto"}, rows |-> <<[impuesto |-> S(IVA)]>>],
           [cols |-> {"dias", "fecha"},
            rows |-> <<[dias |-> S(<<"7">>), fecha |-> NaN], [dias |-> NaN, fecha |-> NaN]>>] }

AgendasPocas ==
    { DFNone,
      [cols |-> {"dias_restantes", "fecha_vto"}, rows |-> FilasVto(<<5>>)],
      [cols |-> {"dias_restantes", "fecha_vto"}, rows |-> FilasVto(<<10, 40>>)],
      [cols |-> {"dias_restantes", "fecha_vto"}, rows |-> FilasVto(<<0, 7, 8, 9, 20, 30>>)] }

FilasDeuda ==
    { [monto |-> a, fecha |-> f] :
        a \in {I(100000), I(500001), NaN},
        f \in {T(RelojBase - 215, 0), T(RelojBase - 179, 0), NaN} }

DeudasRicas ==
    { [cols |-> {"monto", "fecha"}, rows |-> q] : q \in SeqsUpTo(FilasDeuda, MaxDeudas) }
    \cup { [cols |-> {"saldo", "monto", "periodo"},
            rows |-> <<[saldo |-> I(1), monto |-> a, periodo |-> p]>>] :
             a \in {I(0), I(600000), S(<<"1", "0", "0", "0", "0", "1">>), S(<<"x">>)},
             p \in {S(<<"2", "0", "2", "3", "-", "1", "1">>), S(<<"2", "0", "2", "3", "1", "2">>),
                    S(<<"2", "0", "2", "4", "/", "0", "3">>), I(202312), NaN, S(<<"x">>)} }
    \cup { [cols |-> {"total_deuda", "fecha_actualizacion", "periodo"},
            rows |-> <<[total_deuda |-> I(600000), fecha_actualizacion |-> f,
                        periodo |-> S(<<"2", "0", "2", "4", "-", "0", "3">>)]>>] :
             f \in {NaN, T(RelojBase + 45, 0), T(RelojBase - 90, 1), T(RelojBase - 90, 0),
                    S(<<"2", "0", "2", "3", "-", "1", "1", "-", "1", "5">>)} }
    \cup { [cols |-> {"importe", "updated_at"}, rows |-> <<[importe |-> I(a), updated_at |-> f]>>] :
             a \in {0 - 5, 0, 1, 100000, 100001, 500000},
             f \in {T(RelojBase - 89, 0), T(RelojBase - 179, 0), T(RelojBase - 180, 0), NaN} }

DeudasPocas ==
    { DFNone,
      [cols |-> {"monto", "fecha"}, rows |-> <<[monto |-> I(600000), fecha |-> T(RelojBase - 215, 0)]>>],
      [cols |-> {"monto"}, rows |-> <<[monto |-> I(50000)]>>] }

WhatsApp == S(<<"W", "h", "a", "t", "s", "A", "p", "p">>)

FilasCom ==
    { [fecha |-> f, estado |-> S(e), canal |-> WhatsApp] :
        f \in {T(RelojBase - 21, 1), T(RelojBase - 14, 0), T(RelojBase - 2, 1)},
        e \in {PENDIENTE, ENVIADO, RESPONDIDO} }

ComsRicas ==
    { [cols |-> {"fecha", "estado", "canal"}, rows |-> q] : q \in SeqsUpTo(FilasCom, MaxComs) }
    \cup { [cols |-> {"fecha", "canal"}, rows |-> <<[fecha |-> f, canal |-> NaN]>>] :
             f \in {T(RelojBase - 15, 1), T(RelojBase - 7, 0), NaN, T(RelojBase + 3, 0)} }
    \cup { [cols |-> {"estado"}, rows |-> <<[estado |-> S(e)]>>] :
             e \in {PENDIENTE, <<"p", "e", "n", "d", "i", "e", "n", "t", "e">>,
                    <<"P", "E", "N", "D", "I", "E", "N", "T", "E", " ">>, ENVIADO} }

ComsPocas ==
    { DFNone,
      [cols |-> {"fecha", "estado", "canal"},
       rows |-> <<[fecha |-> T(RelojBase - 21, 1), estado |-> S(PENDIENTE), canal |-> WhatsApp]>>],
      [cols |-> {"fecha", "estado", "canal"},
       rows |-> <<[fecha |-> T(RelojBase - 21, 1), estado |-> S(PENDIENTE), canal |-> WhatsApp],
                  [fecha |-> T(RelojBase - 30, 0), estado |-> S(PENDIENTE), canal |-> WhatsApp]>>],
      [cols |-> {"fecha", "estado", "canal"},
       rows |-> <<[fecha |-> T(RelojBase - 2, 0), estado |-> S(ENVIADO), canal |-> WhatsApp]>>] }

EntradasRI ==
    \/ vto_cli \in AgendasRicas /\ deudas_cli \in DeudasPocas /\ com_cli \in ComsPocas
    \/ vto_cli \in AgendasPocas /\ deudas_cli \in DeudasRicas /\ com_cli \in ComsPocas
    \/ vto_cli \in AgendasPocas /\ deudas_cli \in DeudasPocas /\ com_cli \in ComsRicas

NoRI == [ok |-> FALSE]

----------------------------------------------------------------------------
(* Inputs of the window filters *)

SinSalida == [op |-> "none"]

\* rules due before, on and after the reference date 2024-06-15: 5 days ago, today,
\* in 7 days (the last day of the weekly window), in 25, 30 and 37 days
ReglasControl ==
    { Regla(S(IVA), S(ARCA), I(m), I(d), T567) : m \in {6, 7}, d \in {10, 15, 22} }
    \cup { Regla(S(IIBB), S(DGR), I(6), I(d), T567) : d \in {10, 22} }

EntradasControl ==
    /\ clientes \in {c \in SeqsUpTo(ClientesBase, MaxClientes) : CuitsUnicos(c)}
    /\ vencimientos \in SeqsUpTo(ReglasControl, MaxReglas)
    /\ hoy = Fecha(2024, 6, 15)

\* the reference dates handed to the filters: the agenda's own, and an earlier one
FechasControl == {hoy, Fecha(2024, 6, 10)}

\* the windows handed to them, in days
Ventanas == {0, 7, 30}

----------------------------------------------------------------------------
(* The obligation matcher as a state machine *)

InitAgenda ==
    /\ EntradasAgenda
    /\ pc = "inicio"
    /\ resultado = "none"
    /\ agenda = <<>>
    /\ vto_cli = DFNone /\ deudas_cli = DFNone /\ com_cli = DFNone
    /\ reloj = RelojBase /\ ri = NoRI /\ ri_ant = NoRI
    /\ salida = SinSalida

\* app.py line 95: agenda_general = generar_agenda_general(clientes, venc_gen, HOY)
GenerarAgenda ==
    /\ pc = "inicio"
    /\ LET g == generar_agenda_general(clientes, vencimientos, hoy)
       IN /\ resultado' = g.estado
          /\ agenda' = g.agenda
    /\ pc' = "generado"
    /\ UNCHANGED <<clientes, vencimientos, hoy>>
    /\ UNCHANGED varsRI
    /\ UNCHANGED varsControl

NextAgenda == GenerarAgenda

SpecAgenda == InitAgenda /\ [][NextAgenda]_vars

----------------------------------------------------------------------------
(* The risk scoring engine as a state machine *)

InitRI ==
    /\ EntradasRI
    /\ reloj = RelojBase
    /\ ri = NoRI
    /\ ri_ant = NoRI
    /\ clientes = <<>> /\ vencimientos = <<>> /\ hoy = Fecha(2024, 6, 15)
    /\ pc = "inicio" /\ resultado = "none" /\ agenda = <<>>
    /\ salida = SinSalida

\* app.py line 273: ri = ri_pro_cliente(df_cli, d, hist_cli)
RiProCliente ==
    /\ ri' = [ok |-> TRUE, dia |-> reloj,
              r |-> ri_pro_cliente(vto_cli, deudas_cli, com_cli, reloj)]
    /\ ri_ant' = ri
    /\ UNCHANGED <<vto_cli, deudas_cli, com_cli, reloj>>
    /\ UNCHANGED varsAgenda
    /\ UNCHANGED varsControl

\* midnight passes
Tick ==
    /\ reloj < RelojBase + MaxTicks
    /\ reloj' = reloj + 1
    /\ UNCHANGED <<vto_cli, deudas_cli, com_cli, ri, ri_ant>>
    /\ UNCHANGED varsAgenda
    /\ UNCHANGED varsControl

NextRI == RiProCliente \/ Tick

SpecRI == InitRI /\ [][NextRI]_vars

----------------------------------------------------------------------------
(* The general view as a state machine: the agenda is generated, then filtered *)

InitControl ==
    /\ EntradasControl
    /\ pc = "inicio"
    /\ resultado = "none"
    /\ agenda = <<>>
    /\ salida = SinSalida
    /\ vto_cli = DFNone /\ deudas_cli = DFNone /\ com_cli = DFNone
    /\ reloj = RelojBase /\ ri = NoRI /\ ri_ant = NoRI

\* app.py line 222: vencidos_df = generar_vencidos(agenda_general, HOY)
GenerarVencidos ==
    /\ pc = "generado" /\ resultado = "ok"
    /\ \E R \in FechasControl :
          salida' = [op |-> "vencidos", R |-> R, out |-> generar_vencidos(agenda_general(agenda), R)]
    /\ UNCHANGED varsAgenda
    /\ UNCHANGED varsRI

\* app.py line 223: proximos_7 = generar_control_semanal(agenda_general, HOY, dias=7)
GenerarControlSemanal ==
    /\ pc = "generado" /\ resultado = "ok"
    /\ \E R \in FechasControl, dias \in Ventanas :
          salida' = [op |-> "semanal", R |-> R, dias |-> dias,
                     out |-> generar_control_semanal(agenda_general(agenda), R, dias)]
    /\ UNCHANGED varsAgenda
    /\ UNCHANGED varsRI

\* generar_proximos(agenda_general, hoy, dias)
GenerarProximos ==
    /\ pc = "generado" /\ resultado = "ok"
    /\ \E R \in FechasControl, dias \in Ventanas :
          salida' = [op |-> "proximos", R |-> R, dias |-> dias,
                     out |-> generar_proximos(agenda_general(agenda), R, dias)]
    /\ UNCHANGED varsAgenda
    /\ UNCHANGED varsRI

\* app.py line 233: k = kpis(agenda_general)
Kpis ==
    /\ pc = "generado" /\ resultado = "ok"
    /\ salida' = [op |-> "kpis", k |-> kpis(agenda_general(agenda))]
    /\ UNCHANGED varsAgenda
    /\ UNCHANGED varsRI

NextControl ==
    \/ GenerarAgenda
    \/ GenerarVencidos
    \/ GenerarControlSemanal
    \/ GenerarProximos
    \/ Kpis

SpecControl == InitControl /\ [][NextControl]_vars

----------------------------------------------------------------------------
(* app.py, the application's own classification of a client row *)

\* app.py safe_str: str(x) without strip
app_safe_str(x) == IF isna(x) THEN <<>> ELSE Str(x)

es_mono(row) ==
    LET tipo == Upper(app_safe_str(row.tipo_contribuyente))
        flag == Upper(app_safe_str(row.monotributo))
    IN tipo = <<"M", "O", "N", "O">> \/ flag = SI

----------------------------------------------------------------------------
(* Properties of the obligation matcher *)

FilasDelEstado == Filas(clientes, vencimientos, hoy)

EntradasConLlave(k) == {i \in 1..Len(agenda) : Llave(agenda[i]) = k}

\* C1: the returned agenda holds at most one entry per key (cuit, impuesto, organismo,
\* periodo_estimado), and every key some rule produced for a client survives exactly once.
C1_UnaEntradaPorLlave ==
    resultado = "ok" =>
        /\ \A i, j \in 1..Len(agenda) : i # j => Llave(agenda[i]) # Llave(agenda[j])
        /\ \A n \in 1..Len(FilasDelEstado) :
              FilasDelEstado[n].k = "reg" =>
                  Cardinality(EntradasConLlave(Llave(FilasDelEstado[n].r))) = 1

\* two rules produced the same key for a client and the agenda was returned
C1_Witness ==
    /\ resultado = "ok"
    /\ \E n, m \in 1..Len(FilasDelEstado) :
          /\ n < m
          /\ FilasDelEstado[n].k = "reg" /\ FilasDelEstado[m].k = "reg"
          /\ Llave(FilasDelEstado[n].r) = Llave(FilasDelEstado[m].r)
          /\ FilasDelEstado[n].r.fecha_vto # FilasDelEstado[m].r.fecha_vto

ParDeRegla(vto) == <<Upper(safe_str(vto.impuesto)), Upper(safe_str(vto.organismo))>>

Pares ==
    {<<IVA, ARCA>>, <<IIBB, DGR>>, <<IIBB, ATP>>, <<TS, ACOR>>}
    \cup {ParDeRegla(vencimientos[j]) : j \in 1..Len(vencimientos)}

TieneEntrada(c, p) ==
    \E i \in 1..Len(agenda) :
        /\ agenda[i].cuit = Str(c.cuit)
        /\ <<agenda[i].impuesto, agenda[i].organismo>> = p

EnCohorte(c, vto) ==
    \E i \in 1..Len(parse_terminacion(vto.terminacion)) :
        parse_terminacion(vto.terminacion)[i] = ultimo_digito_cuit(c.cuit).v

DebeTenerEntrada(c, p) ==
    /\ ~isna(c.cuit) /\ ~isna(c.razon_social)
    /\ ~es_monotributista(c)
    /\ ultimo_digito_cuit(c.cuit).ok
    /\ p \in responsabilidades_cliente(c)
    /\ \E j \in 1..Len(vencimientos) : ParDeRegla(vencimientos[j]) = p /\ EnCohorte(c, vencimientos[j])

\* C2: the returned agenda has an entry for client c and pair p exactly when c is not
\* skipped, p is one of c's responsibilities and some rule of pair p has c's digit in
\* its cohort.
C2_EntradaSiiAplica ==
    resultado = "ok" =>
        \A i \in 1..Len(clientes) : \A p \in Pares :
            TieneEntrada(clientes[i], p) <=> DebeTenerEntrada(clientes[i], p)

\* one client has an entry for a pair and none for another of its responsibilities,
\* whose only rules have other cohorts; another client has no flag and no entry
C2_Witness ==
    /\ resultado = "ok"
    /\ \E i, j \in 1..Len(clientes) : \E p, q \in Pares :
          /\ TieneEntrada(clientes[i], p)
          /\ q \in responsabilidades_cliente(clientes[i])
          /\ \E n \in 1..Len(vencimientos) : ParDeRegla(vencimientos[n]) = q
          /\ ~TieneEntrada(clientes[i], q)
          /\ responsabilidades_cliente(clientes[j]) = {}
          /\ ~isna(clientes[j].cuit)
          /\ \A r \in Pares : ~TieneEntrada(clientes[j], r)

\* a rule row the claim calls well-formed: numeric month and day that are a calendar
\* date of the reference year, and a cohort string with at least one digit part
BienFormada(vto) ==
    /\ Int_(vto.mes).ok /\ Int_(vto.dia).ok
    /\ FechaValida(hoy.y, Int_(vto.mes).v, Int_(vto.dia).v)
    /\ parse_terminacion(vto.terminacion) # <<>>

\* C3: a malformed rule row is skipped and never aborts the batch: the call returns
\* normally with exactly the entries of the well-formed rows.
C3_FilaMalformadaNoAborta ==
    pc = "generado" =>
        /\ resultado = "ok"
        /\ agenda = generar_agenda_general(clientes, SelectSeq(vencimientos, BienFormada), hoy).agenda

\* C4: a client row the application classifies as simplified-regime has no agenda entry.
C4_MonoSinEntradas ==
    resultado = "ok" =>
        \A i \in 1..Len(clientes) :
            es_mono(clientes[i]) =>
                ~\E n \in 1..Len(agenda) : agenda[n].cuit = Str(clientes[i].cuit)

\* two decimal digits of a month
DosDigitos(m) == <<Digits[(m \div 10) + 1], Digits[(m % 10) + 1]>>

\* C5: an entry of a rule with month m and day d at reference date R has period
\* "<year(R)>-<mm>" when m <= month(R) and "<year(R)-1>-<mm>" otherwise, due date
\* (year(R), m, d) and days-remaining = due date - R; every applicable well-formed rule
\* has its entry.
C5_PeriodoYVencimiento ==
    resultado = "ok" =>
        /\ \A i \in 1..Len(agenda) :
              LET e == agenda[i]
                  m == e.fecha_vto.m
              IN /\ e.fecha_vto.y = hoy.y
                 /\ e.periodo_estimado =
                        IntToStr(IF m <= hoy.m THEN hoy.y ELSE hoy.y - 1) \o <<"-">> \o DosDigitos(m)
                 /\ e.dias_restantes = Ordinal(e.fecha_vto) - Ordinal(hoy)
                 /\ \E c \in 1..Len(clientes), v \in 1..Len(vencimientos) :
                        /\ Str(clientes[c].cuit) = e.cuit
                        /\ ParDeRegla(vencimientos[v]) = <<e.impuesto, e.organismo>>
                        /\ EnCohorte(clientes[c], vencimientos[v])
                        /\ Int_(vencimientos[v].mes) = [ok |-> TRUE, v |-> m]
                        /\ Int_(vencimientos[v].dia) = [ok |-> TRUE, v |-> e.fecha_vto.d]
                 /\ (hoy = Fecha(2024, 6, 1) /\ m = 6 /\ e.fecha_vto.d = 20) =>
                        /\ e.periodo_estimado = <<"2", "0", "2", "4", "-", "0", "6">>
                        /\ e.dias_restantes = 19
                 /\ (hoy = Fecha(2024, 3, 1) /\ m = 12) =>
                        /\ e.periodo_estimado = <<"2", "0", "2", "3", "-", "1", "2">>
                        /\ e.fecha_vto.y = 2024 /\ e.dias_restantes > 0
        /\ \A c \in 1..Len(clientes), v \in 1..Len(vencimientos) :
              (DebeTenerEntrada(clientes[c], ParDeRegla(vencimientos[v]))
                  /\ EnCohorte(clientes[c], vencimientos[v])) =>
                  \E i \in 1..Len(agenda) :
                      /\ agenda[i].cuit = Str(clientes[c].cuit)
                      /\ <<agenda[i].impuesto, agenda[i].organismo>> = ParDeRegla(vencimientos[v])
                      /\ agenda[i].fecha_vto.m = Int_(vencimientos[v].mes).v

\* a rule of December 20 evaluated on 2024-03-01 gave an entry of period 2023-12 due
\* on 2024-12-20, 294 days ahead
C5_Witness ==
    /\ resultado = "ok"
    /\ hoy = Fecha(2024, 3, 1)
    /\ \E i \in 1..Len(agenda) :
          /\ agenda[i].fecha_vto = Fecha(2024, 12, 20)
          /\ agenda[i].periodo_estimado = <<"2", "0", "2", "3", "-", "1", "2">>
          /\ agenda[i].dias_restantes = 294

----------------------------------------------------------------------------
(* Properties of the risk scoring engine *)

Composicion == ri.r.resumen.composicion

\* C6 (as amended): the composite is the sum of the three component scores of the
\* composition, the due-date score is in 0..40, the debt score in 0..40 and the
\* communication score in 0..20, so the composite is in 0..100.
C6_SumaYTopes ==
    ri.ok =>
        /\ ri.r.resumen.score = Composicion.vencimientos + Composicion.deudas + Composicion.comunicacion
        /\ Composicion.total = ri.r.resumen.score
        /\ Composicion.vencimientos \in 0..40
        /\ Composicion.deudas \in 0..40
        /\ Composicion.comunicacion \in 0..20
        /\ ri.r.resumen.score \in 0..100

\* C6 as stated: the same, with the composite always in 0..90.
C6_Original ==
    ri.ok =>
        /\ ri.r.resumen.score = Composicion.vencimientos + Composicion.deudas + Composicion.comunicacion
        /\ Composicion.vencimientos \in 0..40
        /\ Composicion.deudas \in 0..40
        /\ Composicion.comunicacion \in 0..20
        /\ ri.r.resumen.score \in 0..90

\* every component at its cap: the composite is 100
C6_Witness ==
    /\ ri.ok
    /\ Composicion.vencimientos = 40 /\ Composicion.deudas = 40 /\ Composicion.comunicacion = 20
    /\ ri.r.resumen.score = 100

\* the scenario of C7: one agenda entry, critical; total debt 600,000 whose oldest
\* record is 7 months old; one communication event, pending, dated 20 days ago
EscenarioC7 ==
    /\ ri.ok
    /\ Len(vto_cli.rows) = 1
    /\ Len(ri.r.riesgo_vencimientos.criticos) = 1
    /\ ri.r.riesgo_deuda.total_deuda = 600000
    /\ ri.r.riesgo_deuda.antiguedad_max_meses = 7
    /\ Len(com_cli.rows) = 1
    /\ "estado" \in com_cli.cols /\ com_cli.rows[1]["estado"] = S(PENDIENTE)
    /\ ri.r.estado_comunicacion.dias_sin_respuesta = I(20)

\* C7 (as amended): in the scenario the due-date score is 15, the debt score 40, the
\* communication score 13 (8 for the pending event, 5 for its age), the composite 68,
\* the level critical and the action "evaluate debt/payment plan".
C7_Escenario ==
    EscenarioC7 =>
        /\ Composicion.vencimientos = 15
        /\ Composicion.deudas = 40
        /\ Composicion.comunicacion = 13
        /\ ri.r.resumen.score = 68
        /\ ri.r.resumen.nivel = "CRITICO"
        /\ ri.r.resumen.accion_sugerida = "Evaluar pago o plan de pagos"

\* C7 as stated: communication score 20 and composite 75.
C7_Original ==
    EscenarioC7 =>
        /\ Composicion.vencimientos = 15
        /\ Composicion.deudas = 40
        /\ Composicion.comunicacion = 20
        /\ ri.r.resumen.score = 75
        /\ ri.r.resumen.nivel = "CRITICO"
        /\ ri.r.resumen.accion_sugerida = "Evaluar pago o plan de pagos"

C7_Witness == EscenarioC7

\* C8: with no agenda entries, no debt records and no communication events the
\* assessment is composite 0, level low, action "normal operation" and no issue tag.
C8_ClienteLimpio ==
    (ri.ok /\ Vacio(vto_cli) /\ Vacio(deudas_cli) /\ Vacio(com_cli)) =>
        /\ ri.r.resumen.score = 0
        /\ ri.r.resumen.nivel = "BAJO"
        /\ ri.r.resumen.accion_sugerida = "Operacion normal"
        /\ ri.r.resumen.chips = <<>>

TieneColumnaDias == vto_cli.cols \cap {"dias_restantes", "dias", "restantes"} # {}

C10_AccionPorPrioridad ==
    ri.ok =>
        LET total == ri.r.riesgo_deuda.total_deuda
            ncrit == Len(ri.r.riesgo_vencimientos.criticos)
            nprox == Len(ri.r.riesgo_vencimientos.proximos)
            a == ri.r.resumen.accion_sugerida
        IN /\ total > 0 => a = "Evaluar pago o plan de pagos"
           /\ (total <= 0 /\ ncrit > 0) => a = "Priorizar presentaciones criticas"
           /\ (total <= 0 /\ ncrit = 0 /\ nprox > 0) => a = "Organizar presentaciones proximas"
           /\ (total <= 0 /\ ncrit = 0 /\ nprox = 0 /\ ri.r.resumen.nivel \in {"CRITICO", "ALTO"}) =>
                  a = "Revisar situacion fiscal integral"
           /\ (total <= 0 /\ ncrit = 0 /\ nprox = 0 /\ ri.r.resumen.nivel \notin {"CRITICO", "ALTO"}) =>
                  a = "Operacion normal"

\* a client with debt and critical entries is told to evaluate the debt
C10_Witness ==
    /\ ri.ok
    /\ ri.r.riesgo_deuda.total_deuda > 0
    /\ Len(ri.r.riesgo_vencimientos.criticos) > 0
    /\ ri.r.resumen.accion_sugerida = "Evaluar pago o plan de pagos"

----------------------------------------------------------------------------
(* Properties of the risk level and of the component scores *)

Rango(nivel) ==
    CASE nivel = "BAJO" -> 0
      [] nivel = "MEDIO" -> 1
      [] nivel = "ALTO" -> 2
      [] nivel = "CRITICO" -> 3

\* C11: the level is a step function of the composite alone (critical from 60, high
\* on 35..59, medium on 20..34, low below 20), it is non-decreasing in the composite,
\* and the color is determined by the level alone.
C11_NivelPorEscalones ==
    ri.ok =>
        LET s == ri.r.resumen.score
            n == ri.r.resumen.nivel
        IN /\ s >= 60 => n = "CRITICO"
           /\ s \in 35..59 => n = "ALTO"
           /\ s \in 20..34 => n = "MEDIO"
           /\ s < 20 => n = "BAJO"
           /\ n \in {"CRITICO", "ALTO"} => ri.r.resumen.color = "rojo"
           /\ n = "MEDIO" => ri.r.resumen.color = "naranja"
           /\ n = "BAJO" => ri.r.resumen.color = "verde"
           /\ (ri_ant.ok /\ ri_ant.r.resumen.score <= s) =>
                  Rango(ri_ant.r.resumen.nivel) <= Rango(n)

\* a composite exactly on a threshold, reached from a lower composite of a lower level
C11_Witness ==
    /\ ri.ok /\ ri_ant.ok
    /\ ri.r.resumen.score \in {20, 35, 60}
    /\ ri_ant.r.resumen.score < ri.r.resumen.score
    /\ Rango(ri_ant.r.resumen.nivel) < Rango(ri.r.resumen.nivel)

\* the events of the history whose status, upper-cased, is the given one
EventosEnEstado(valor) ==
    LET col == pick_col(com_cli, <<"estado", "status">>)
    IN IF col.ok
       THEN Cardinality({i \in 1..Len(com_cli.rows) : Upper(Str(com_cli.rows[i][col.c])) = valor})
       ELSE 0

\* the timestamps of the history
FechasCom ==
    LET col == pick_col(com_cli, <<"fecha", "created_at", "timestamp">>)
    IN IF col.ok
       THEN {to_dt(com_cli.rows[i][col.c]) : i \in 1..Len(com_cli.rows)} \ {NaN}
       ELSE {}

\* whole days from the most recent event to the date of the assessment
DiasDesdeUltimo ==
    LET ult == CHOOSE f \in FechasCom :
                   \A g \in FechasCom : g.d < f.d \/ (g.d = f.d /\ g.tod <= f.tod)
    IN ri.dia - ult.d - ult.tod

\* C12: for a non-empty history with p pending events the status part is min(15, 8p)
\* and the status "pending"; with p = 0, a sent and no responded event it is 6 and
\* "sent without response"; otherwise 0 and "ok". The age of the most recent event adds
\* 5 from 15 days on and 3 on 7..14 days, and sets the suggested action only when the
\* status part set none. The total is capped at 20.
C12_ScoreComunicacion ==
    (ri.ok /\ ~Vacio(com_cli)) =>
        LET c == ri.r.estado_comunicacion
            np == EventosEnEstado(PENDIENTE)
            ne == EventosEnEstado(ENVIADO)
            nr == EventosEnEstado(RESPONDIDO)
            parte_estado == IF np > 0 THEN Min(15, 8 * np)
                            ELSE IF ne > 0 /\ nr = 0 THEN 6
                            ELSE 0
            parte_edad == IF FechasCom = {} THEN 0
                          ELSE IF DiasDesdeUltimo >= 15 THEN 5
                          ELSE IF DiasDesdeUltimo \in 7..14 THEN 3
                          ELSE 0
        IN /\ c.score = Min(20, parte_estado + parte_edad)
           /\ np > 0 => c.estado = "PENDIENTE" /\ c.accion_sugerida = "Recontactar / solicitar respuesta"
           /\ (np = 0 /\ ne > 0 /\ nr = 0) =>
                  c.estado = "ENVIADO SIN RESPUESTA" /\ c.accion_sugerida = "Confirmar recepcion"
           /\ (np = 0 /\ (ne = 0 \/ nr > 0)) =>
                  /\ c.estado = "OK"
                  /\ c.accion_sugerida = IF parte_edad = 5 THEN "Recontactar (15+ dias)" ELSE "None"
           /\ FechasCom # {} => c.dias_sin_respuesta = I(DiasDesdeUltimo)

\* two pending events, the most recent 15 days old or more: 15 + 5, the action of the
\* pending status kept
C12_Witness ==
    /\ ri.ok
    /\ EventosEnEstado(PENDIENTE) = 2
    /\ FechasCom # {} /\ DiasDesdeUltimo >= 15
    /\ ri.r.estado_comunicacion.score = 20
    /\ ri.r.estado_comunicacion.accion_sugerida = "Recontactar / solicitar respuesta"

\* the rows of the client's agenda that are in the given bucket of the assessment
FilasEn(nombre) == {ri.r.riesgo_vencimientos[nombre][j].fila : j \in 1..Len(ri.r.riesgo_vencimientos[nombre])}

\* C13: every agenda entry of the client with an integer days-remaining is in exactly
\* one bucket: critical up to 7 days (overdue and exactly 7 included), near on 8..30,
\* future above 30; the due-date score is min(30, 15 * critical) + min(10, 3 * near).
C13_BucketsYScore ==
    (ri.ok /\ "dias_restantes" \in vto_cli.cols) =>
        /\ \A i \in 1..Len(vto_cli.rows) :
              LET c == vto_cli.rows[i]["dias_restantes"]
              IN c.t = "int" =>
                    /\ i \in FilasEn("criticos") <=> c.v <= 7
                    /\ i \in FilasEn("proximos") <=> c.v \in 8..30
                    /\ i \in FilasEn("futuros") <=> c.v > 30
                    /\ Cardinality({b \in {"criticos", "proximos", "futuros"} : i \in FilasEn(b)}) = 1
        /\ \A b \in {"criticos", "proximos", "futuros"} :
              Cardinality(FilasEn(b)) = Len(ri.r.riesgo_vencimientos[b])
        /\ ri.r.resumen.composicion.vencimientos =
              Min(30, 15 * Len(ri.r.riesgo_vencimientos.criticos))
              + Min(10, 3 * Len(ri.r.riesgo_vencimientos.proximos))

\* an overdue entry and an entry at exactly 7 days are critical, an entry at 8 days is
\* near and an entry at 31 days is future
C13_Witness ==
    /\ ri.ok /\ "dias_restantes" \in vto_cli.cols
    /\ \E i \in FilasEn("criticos") : vto_cli.rows[i]["dias_restantes"] = I(0 - 3)
    /\ \E i \in FilasEn("criticos") : vto_cli.rows[i]["dias_restantes"] = I(7)
    /\ \E i \in FilasEn("proximos") : vto_cli.rows[i]["dias_restantes"] = I(8)
    /\ \E i \in FilasEn("futuros") : vto_cli.rows[i]["dias_restantes"] = I(31)

\* the debt records carry no date: no date column and no period column with a
\* parseable cell
SinFechaDeDeuda ==
    LET cf == pick_col(deudas_cli, <<"fecha_actualizacion", "fecha", "actualizado", "updated_at">>)
        cp == pick_col(deudas_cli, <<"periodo", "periodo_fiscal">>)
    IN /\ cf.ok => \A i \in 1..Len(deudas_cli.rows) : isna(to_dt(deudas_cli.rows[i][cf.c]))
       /\ cp.ok => \A i \in 1..Len(deudas_cli.rows) : isna(PeriodoAFecha(deudas_cli.rows[i][cp.c]))

\* C14: the amount tier is 0 for a total debt of 0, 10 on (0, 100000], 20 on
\* (100000, 500000] and 30 above; the age part is 10 from 6 months on, 5 on 3..5 months
\* and 0 otherwise; the debt score is their sum capped at 40; the age part is 0 when no
\* date-like column is available or parseable.
C14_ScoreDeuda ==
    ri.ok =>
        LET total == ri.r.riesgo_deuda.total_deuda
            meses == ri.r.riesgo_deuda.antiguedad_max_meses
            tramo == IF total = 0 THEN 0
                     ELSE IF total > 0 /\ total <= 100000 THEN 10
                     ELSE IF total > 100000 /\ total <= 500000 THEN 20
                     ELSE IF total > 500000 THEN 30
                     ELSE 0
            edad == IF meses >= 6 THEN 10 ELSE IF meses \in 3..5 THEN 5 ELSE 0
        IN /\ ri.r.resumen.composicion.deudas = Min(40, tramo + edad)
           /\ SinFechaDeDeuda =>
                  /\ meses = 0
                  /\ ri.r.resumen.composicion.deudas = tramo

\* a total debt of exactly 500000 whose oldest record is 3 to 5 months old scores 20 + 5
C14_Witness ==
    /\ ri.ok
    /\ ri.r.riesgo_deuda.total_deuda = 500000
    /\ ri.r.riesgo_deuda.antiguedad_max_meses \in 3..5
    /\ ri.r.resumen.composicion.deudas = 25

\* a total debt above 500000 without a usable date scores the amount tier alone
C14_WitnessSinFecha ==
    /\ ri.ok /\ ~Vacio(deudas_cli) /\ SinFechaDeDeuda
    /\ ri.r.riesgo_deuda.total_deuda > 500000
    /\ ri.r.resumen.composicion.deudas = 30

\* C17: the action "review overall fiscal standing" is never returned: with a total
\* debt that is not positive and no critical and no near-term entry the due-date score
\* is 0, the debt score at most 10 and the communication score at most 20, so the
\* composite is at most 30 and the level neither critical nor high.
C17_RevisarNuncaDevuelta ==
    ri.ok =>
        /\ ri.r.resumen.accion_sugerida # "Revisar situacion fiscal integral"
        /\ (/\ ri.r.riesgo_deuda.total_deuda <= 0
            /\ Len(ri.r.riesgo_vencimientos.criticos) = 0
            /\ Len(ri.r.riesgo_vencimientos.proximos) = 0) =>
               /\ ri.r.resumen.composicion.vencimientos = 0
               /\ ri.r.resumen.composicion.deudas <= 10
               /\ ri.r.resumen.composicion.comunicacion <= 20
               /\ ri.r.resumen.score <= 30
               /\ ri.r.resumen.nivel \notin {"CRITICO", "ALTO"}

\* no debt, no critical and no near-term entry, debt records 6 months old and two old
\* pending events: the composite is 30, the level medium and the operation normal
C17_Witness ==
    /\ ri.ok
    /\ ri.r.riesgo_deuda.total_deuda <= 0
    /\ Len(ri.r.riesgo_vencimientos.criticos) = 0
    /\ Len(ri.r.riesgo_vencimientos.proximos) = 0
    /\ ri.r.resumen.score = 30
    /\ ri.r.resumen.nivel = "MEDIO"
    /\ ri.r.resumen.accion_sugerida = "Operacion normal"

----------------------------------------------------------------------------
(* Properties of the window filters and of the KPI aggregate *)

\* the table handed to the filters and to kpis
AgendaGeneral == agenda_general(agenda)

EntradasDe(df) == {df[i] : i \in 1..Len(df)}

Vencidas(R) == {i \in 1..Len(AgendaGeneral) : Ordinal(AgendaGeneral[i].fecha_vto) < Ordinal(R)}

EnPlazo(R, dias) ==
    {i \in 1..Len(AgendaGeneral) :
        /\ Ordinal(AgendaGeneral[i].fecha_vto) >= Ordinal(R)
        /\ Ordinal(AgendaGeneral[i].fecha_vto) <= Ordinal(R) + dias}

\* C15: generar_vencidos returns exactly the entries due strictly before R, and
\* generar_control_semanal and generar_proximos exactly the entries due in [R, R + N],
\* both ends included; the overdue set and the window set of one R are disjoint, no
\* entry is added or altered, and the agenda handed in is left as the matcher
\* returned it.
C15_FiltrosDeVentana ==
    salida.op \in {"vencidos", "semanal", "proximos"} =>
        /\ salida.op = "vencidos" =>
              /\ EntradasDe(salida.out) = {AgendaGeneral[i] : i \in Vencidas(salida.R)}
              /\ Len(salida.out) = Cardinality(Vencidas(salida.R))
              /\ \A dias \in Ventanas :
                    /\ EntradasDe(salida.out)
                         \cap EntradasDe(generar_control_semanal(AgendaGeneral, salida.R, dias)) = {}
                    /\ EntradasDe(salida.out)
                         \cap EntradasDe(generar_proximos(AgendaGeneral, salida.R, dias)) = {}
        /\ salida.op \in {"semanal", "proximos"} =>
              /\ EntradasDe(salida.out) = {AgendaGeneral[i] : i \in EnPlazo(salida.R, salida.dias)}
              /\ Len(salida.out) = Cardinality(EnPlazo(salida.R, salida.dias))
              /\ EntradasDe(salida.out) \cap EntradasDe(generar_vencidos(AgendaGeneral, salida.R)) = {}
        /\ EntradasDe(salida.out) \subseteq EntradasDe(agenda)
        /\ agenda = generar_agenda_general(clientes, vencimientos, hoy).agenda

\* a weekly window that holds an entry due on R and an entry due on R + 7
C15_Witness ==
    /\ salida.op = "semanal" /\ salida.dias = 7
    /\ \E r \in EntradasDe(salida.out) : Ordinal(r.fecha_vto) = Ordinal(salida.R)
    /\ \E r \in EntradasDe(salida.out) : Ordinal(r.fecha_vto) = Ordinal(salida.R) + 7

\* an overdue set that holds one entry of the agenda and leaves out the entry due on R
C15_WitnessVencidos ==
    /\ salida.op = "vencidos"
    /\ Len(salida.out) = 1 /\ Len(agenda) = 2
    /\ \E r \in EntradasDe(agenda) : Ordinal(r.fecha_vto) = Ordinal(salida.R)

\* C16: for an agenda of the matcher, kpis returns the number of entries, the number of
\* overdue entries (the size of the overdue set at the agenda's reference date) and the
\* number of distinct clients.
C16_KpisDeLaAgenda ==
    salida.op = "kpis" =>
        /\ salida.k.obligaciones = Len(AgendaGeneral)
        /\ salida.k.vencidas = Len(generar_vencidos(AgendaGeneral, hoy))
        /\ salida.k.clientes = Cardinality({AgendaGeneral[i].cuit : i \in 1..Len(AgendaGeneral)})

----------------------------------------------------------------------------
(* Properties that relate the agenda's columns to each other and to the filters *)

\* the year of an estimated period "YYYY-MM"
AnioDelPeriodo(r) == DigitsToNat(SubSeq(r.periodo_estimado, 1, 4))

\* C18: an entry whose estimated period is of the prior year has days-remaining > 0,
\* its due date being in a later month of the reference year; so every overdue entry
\* has a period of the reference year, and every due date is in the reference year.
C18_PeriodoAnteriorNoVencido ==
    resultado = "ok" =>
        \A i \in 1..Len(agenda) :
            LET r == agenda[i]
            IN /\ AnioDelPeriodo(r) \in {hoy.y, hoy.y - 1}
               /\ AnioDelPeriodo(r) = hoy.y - 1 =>
                      r.dias_restantes > 0 /\ r.fecha_vto.m > hoy.m
               /\ r.dias_restantes < 0 => AnioDelPeriodo(r) = hoy.y
               /\ r.fecha_vto.y = hoy.y

\* an agenda with an entry of a prior-year period, not yet due, and an overdue entry of
\* the reference month
C18_Witness ==
    /\ resultado = "ok"
    /\ \E i \in 1..Len(agenda) :
          AnioDelPeriodo(agenda[i]) = hoy.y - 1 /\ agenda[i].dias_restantes > 0
    /\ \E i \in 1..Len(agenda) :
          /\ agenda[i].dias_restantes < 0
          /\ agenda[i].fecha_vto.m = hoy.m
          /\ AnioDelPeriodo(agenda[i]) = hoy.y

\* C19: at the agenda's own reference date the indicator agrees with the filters: an
\* entry is in generar_vencidos exactly when its indicator is "overdue" (days-remaining
\* < 0), in generar_control_semanal with a window of 7 days exactly when it is "urgent"
\* (days-remaining in 0..7), and every other entry is "normal".
C19_SemaforoYFiltros ==
    (salida.op \in {"vencidos", "semanal"} /\ salida.R = hoy) =>
        \A r \in EntradasDe(AgendaGeneral) :
            /\ salida.op = "vencidos" =>
                  /\ r \in EntradasDe(salida.out) <=> r.semaforo = "rojo"
                  /\ r \in EntradasDe(salida.out) <=> r.dias_restantes < 0
            /\ (salida.op = "semanal" /\ salida.dias = 7) =>
                  /\ r \in EntradasDe(salida.out) <=> r.semaforo = "naranja"
                  /\ r \in EntradasDe(salida.out) <=> r.dias_restantes \in 0..7
            /\ r.semaforo = "verde" <=>
                  /\ r \notin EntradasDe(generar_vencidos(AgendaGeneral, hoy))
                  /\ r \notin EntradasDe(generar_control_semanal(AgendaGeneral, hoy, 7))
            /\ r.semaforo \in {"rojo", "naranja", "verde"}

\* the weekly window at the agenda's reference date holds the urgent entry due today
\* and leaves out the overdue entry of the same agenda
C19_Witness ==
    /\ salida.op = "semanal" /\ salida.dias = 7 /\ salida.R = hoy
    /\ \E r \in EntradasDe(salida.out) : r.dias_restantes = 0 /\ r.semaforo = "naranja"
    /\ \E r \in EntradasDe(agenda) \ EntradasDe(salida.out) :
          r.dias_restantes < 0 /\ r.semaforo = "rojo"

====
